---- MODULE Spec2Model ----
(***************************************************************************)
(* A model of improved.py, the time-tracking and billing calculator.       *)
(*                                                                         *)
(* Strings are sequences of one-character strings, so that the parser's    *)
(* substitutions, strip, slicing and pattern match are computed character  *)
(* by character.  A datetime is a record of days since 1900-01-01, hour    *)
(* and minute (strptime("%H:%M") sets no other field).  Python's None is   *)
(* the record None.                                                        *)
(***************************************************************************)
EXTENDS Integers, Sequences, FiniteSets, TLC

VARIABLES
    sessions,       \* manage_sessions: the session collection
    new_sessions,   \* get_multiple_session_details: its local list
    pc,             \* "menu", "adding" or "done"
    last,           \* history: the last command, its inputs, the collection before it
    time_input,     \* parser run: the raw string
    in_hour,        \* parser run: the hour the string was written from
    in_minute,      \* parser run: the minute the string was written from
    in_form,        \* parser run: the form the string was written in
    parse_result,   \* parser run: Pending, None or a datetime
    calc_a,         \* calculator run: a call (start, end, result)
    calc_b,         \* calculator run: a second call
    flow_s,         \* pipeline run: the start time of day, in minutes
    flow_e,         \* pipeline run: the end time of day, in minutes
    flow_add,       \* pipeline run: Pending, or what one pass of the add loop appends
    flow_edit       \* pipeline run: Pending, or what an edit puts in place

shellVars == <<sessions, new_sessions, pc, last>>
parseVars == <<time_input, in_hour, in_minute, in_form, parse_result>>
calcVars == <<calc_a, calc_b>>
flowVars == <<flow_s, flow_e, flow_add, flow_edit>>
vars == <<sessions, new_sessions, pc, last, time_input, in_hour, in_minute, in_form,
          parse_result, calc_a, calc_b, flow_s, flow_e, flow_add, flow_edit>>

(***************************************************************************)
(* Bounds of the model.                                                    *)
(***************************************************************************)
\* parser runs: strings are written from hours 0..MaxHourIn, minutes 0..MaxMinuteIn
MaxHourIn == 99
MaxMinuteIn == 99
\* calculator runs: end - start ranges over -MaxNegative..MaxDuration minutes
MaxDuration == 190
MaxNegative == 65
\* shell runs: records held by the collection and the add loop together
MaxSessions == 3

(***************************************************************************)
(* Values.                                                                 *)
(***************************************************************************)
None == [type |-> "None"]
Pending == [type |-> "pending"]

datetime(days, hour, minute) ==
    [type |-> "datetime", days |-> days, hour |-> hour, minute |-> minute]

\* minutes since 1900-01-01 00:00: the order and the difference of datetimes
ToMinutes(dt) == dt.days * 1440 + dt.hour * 60 + dt.minute

\* dt + timedelta(days=1)
PlusOneDay(dt) == [dt EXCEPT !.days = @ + 1]

\* truth value of an object: None is false, a datetime and a non-empty dict are true
Truthy(v) == v # None

(***************************************************************************)
(* Characters and strings.                                                 *)
(***************************************************************************)
DigitChars == <<"0", "1", "2", "3", "4", "5", "6", "7", "8", "9">>

IsDigitChar(c) == \E i \in 1..10 : DigitChars[i] = c

DigitVal(c) == (CHOOSE i \in 1..10 : DigitChars[i] = c) - 1

IsSpace(c) == c = " "

\* re.sub(r'[<chars>]', to, s)
re_sub(chars, to, s) == [i \in 1..Len(s) |-> IF s[i] \in chars THEN to ELSE s[i]]

\* str.strip()
RECURSIVE lstrip(_)
lstrip(s) == IF s # <<>> /\ IsSpace(Head(s)) THEN lstrip(Tail(s)) ELSE s

RECURSIVE rstrip(_)
rstrip(s) ==
    IF s # <<>> /\ IsSpace(s[Len(s)]) THEN rstrip(SubSeq(s, 1, Len(s) - 1)) ELSE s

strip(s) == rstrip(lstrip(s))

\* str.isdigit(): at least one character and all of them digits
isdigit(s) == s # <<>> /\ \A i \in 1..Len(s) : IsDigitChar(s[i])

\* str(n) for n >= 0
RECURSIVE DecStr(_)
DecStr(n) == IF n < 10 THEN <<DigitChars[n + 1]>>
             ELSE DecStr(n \div 10) \o <<DigitChars[(n % 10) + 1]>>

\* the value of a string of digits
RECURSIVE DigitsVal(_)
DigitsVal(s) == IF s = <<>> THEN 0
                ELSE DigitsVal(SubSeq(s, 1, Len(s) - 1)) * 10 + DigitVal(s[Len(s)])

\* "%02d" % n, what strftime("%H") and strftime("%M") write
Pad2(n) == IF n < 10 THEN <<"0">> \o DecStr(n) ELSE DecStr(n)

(***************************************************************************)
(* datetime.strptime(s, "%H:%M").                                          *)
(* The format compiles to (?P<H>2[0-3]|[0-1]\d|\d):(?P<M>[0-5]\d|\d),      *)
(* matched at the start of s with the alternatives tried in order; no      *)
(* match, or a match that ends before the end of s ("unconverted data      *)
(* remains"), raises ValueError, modelled as the value None.               *)
(***************************************************************************)
CharAt(s, i) == IF i \in 1..Len(s) THEN s[i] ELSE "<end>"

\* the alternatives of %H, in order: 2[0-3], [0-1]\d, \d
HAlt(s, k) ==
    CASE k = 1 -> CharAt(s, 1) = "2" /\ CharAt(s, 2) \in {"0", "1", "2", "3"}
      [] k = 2 -> CharAt(s, 1) \in {"0", "1"} /\ IsDigitChar(CharAt(s, 2))
      [] k = 3 -> IsDigitChar(CharAt(s, 1))

HLen(k) == IF k = 3 THEN 1 ELSE 2

\* the alternatives of %M at position p, in order: [0-5]\d, \d
MAlt(s, p, k) ==
    CASE k = 1 -> CharAt(s, p) \in {"0", "1", "2", "3", "4", "5"}
                  /\ IsDigitChar(CharAt(s, p + 1))
      [] k = 2 -> IsDigitChar(CharAt(s, p))

MLen(k) == IF k = 1 THEN 2 ELSE 1

\* the matches of the whole pattern, as <<alternative of H, alternative of M>>
Matches(s) ==
    {km \in (1..3) \X (1..2) :
        /\ HAlt(s, km[1])
        /\ CharAt(s, HLen(km[1]) + 1) = ":"
        /\ MAlt(s, HLen(km[1]) + 2, km[2])}

\* the match the regex engine returns: the first in the order of the alternatives
FirstMatch(s) ==
    CHOOSE km \in Matches(s) :
        \A other \in Matches(s) :
            \/ km[1] < other[1]
            \/ (km[1] = other[1] /\ km[2] <= other[2])

strptime_unchecked(s) ==
    IF Matches(s) = {} THEN None
    ELSE LET km == FirstMatch(s)
             hl == HLen(km[1])
             ml == MLen(km[2])
         IN  datetime(0, DigitsVal(SubSeq(s, 1, hl)),
                         DigitsVal(SubSeq(s, hl + 2, hl + 1 + ml)))

strptime(s) ==
    IF Matches(s) = {} THEN None
    ELSE LET km == FirstMatch(s)
             hl == HLen(km[1])
             ml == MLen(km[2])
         IN  IF hl + 1 + ml # Len(s) THEN None
             ELSE datetime(0, DigitsVal(SubSeq(s, 1, hl)),
                              DigitsVal(SubSeq(s, hl + 2, hl + 1 + ml)))

(***************************************************************************)
(* parse_time_input                                                        *)
(***************************************************************************)
\* the slip of replacing '.' alone by ':'
parse_time_input_dot_only(raw) ==
    LET s1 == re_sub({"."}, ":", raw)
        s2 == re_sub({","}, ".", s1)
        s3 == strip(s2)
        s4 == IF Len(s3) = 4 /\ isdigit(s3)
              THEN SubSeq(s3, 1, 2) \o <<":">> \o SubSeq(s3, 3, 4)
              ELSE s3
    IN  strptime(s4)

parse_time_input(raw) ==
    LET s1 == re_sub({".", ";"}, ":", raw)
        s2 == re_sub({","}, ".", s1)
        s3 == strip(s2)
        s4 == IF Len(s3) = 4 /\ isdigit(s3)
              THEN SubSeq(s3, 1, 2) \o <<":">> \o SubSeq(s3, 3, 4)
              ELSE s3
    IN  strptime(s4)

(***************************************************************************)
(* calculate_duration                                                      *)
(***************************************************************************)
RATE_FULL_HOUR == 220
RATE_HALF_HOUR == 110

\* duration.total_seconds() of end_time - start_time
total_seconds(start_time, end_time) == (ToMinutes(end_time) - ToMinutes(start_time)) * 60

\* the slip of rejecting a duration of zero as well
is_negative_or_zero(seconds) == seconds <= 0

\* the guard of line 33
is_negative(seconds) == seconds < 0

\* the slip of leaving the hour alone when the minutes round up
rounding_no_carry(hours, minutes) ==
    IF minutes <= 19 THEN [rounded_hours |-> hours, rounded_minutes |-> 0]
    ELSE IF 20 <= minutes /\ minutes <= 49
         THEN [rounded_hours |-> hours, rounded_minutes |-> 30]
         ELSE [rounded_hours |-> hours, rounded_minutes |-> 0]

\* the slip of a strict first comparison: 19 minutes falls through to the last branch
rounding_strict(hours, minutes) ==
    IF minutes < 19 THEN [rounded_hours |-> hours, rounded_minutes |-> 0]
    ELSE IF 20 <= minutes /\ minutes <= 49
         THEN [rounded_hours |-> hours, rounded_minutes |-> 30]
         ELSE [rounded_hours |-> hours + 1, rounded_minutes |-> 0]

\* the rounding logic of lines 42-50
rounding(hours, minutes) ==
    IF minutes <= 19 THEN [rounded_hours |-> hours, rounded_minutes |-> 0]
    ELSE IF 20 <= minutes /\ minutes <= 49
         THEN [rounded_hours |-> hours, rounded_minutes |-> 30]
         ELSE [rounded_hours |-> hours + 1, rounded_minutes |-> 0]

\* the slip of billing the half hour at the full rate
cost_of_full_rate(rounded_hours, rounded_minutes) ==
    (rounded_hours * RATE_FULL_HOUR) + ((rounded_minutes \div 30) * RATE_FULL_HOUR)

\* the cost of line 56
cost_of(rounded_hours, rounded_minutes) ==
    (rounded_hours * RATE_FULL_HOUR) + ((rounded_minutes \div 30) * RATE_HALF_HOUR)

\* decimal_hours of line 53, in tenths of an hour; round(x, 1) of line 67 leaves a
\* whole number of tenths as it is
decimal_tenths(rounded_hours, rounded_minutes) ==
    rounded_hours * 10 + (IF rounded_minutes = 30 THEN 5 ELSE 0)

\* strftime("%H:%M")
strftime(dt) == Pad2(dt.hour) \o <<":">> \o Pad2(dt.minute)

\* f"${cost:.2f}" of a whole cost
format_cost(cost) == <<"$">> \o DecStr(cost) \o <<".", "0", "0">>

calculate_duration(start_time, end_time) ==
    IF is_negative(total_seconds(start_time, end_time)) THEN None
    ELSE LET total_minutes == total_seconds(start_time, end_time) \div 60
             hours == total_minutes \div 60
             minutes == total_minutes % 60
             r == rounding(hours, minutes)
             cost == cost_of(r.rounded_hours, r.rounded_minutes)
         IN  [start_time |-> strftime(start_time),
              end_time |-> strftime(end_time),
              original_hours |-> hours,
              original_minutes |-> minutes,
              rounded_hours |-> r.rounded_hours,
              rounded_minutes |-> r.rounded_minutes,
              decimal_hours |-> decimal_tenths(r.rounded_hours, r.rounded_minutes),
              cost |-> cost,
              formatted_cost |-> format_cost(cost)]

(***************************************************************************)
(* The pipeline of the add loop (lines 98-110) and of an edit (lines       *)
(* 147-157): parse both strings, wrap the end over midnight, compute.      *)
(* Each yields the record to append / put in place, or None for nothing.   *)
(***************************************************************************)
\* the slip of wrapping an end equal to the start as well
add_wrap_or_equal(start_time, end_time) ==
    IF ToMinutes(end_time) <= ToMinutes(start_time) THEN PlusOneDay(end_time) ELSE end_time

\* lines 105-106
add_wrap(start_time, end_time) ==
    IF ToMinutes(end_time) < ToMinutes(start_time) THEN PlusOneDay(end_time) ELSE end_time

\* lines 152-153
edit_wrap(start_time, end_time) ==
    IF ToMinutes(end_time) < ToMinutes(start_time) THEN PlusOneDay(end_time) ELSE end_time

add_one(start_input, end_input) ==
    LET start_time == parse_time_input(start_input)
        end_time == parse_time_input(end_input)
    IN  IF ~Truthy(start_time) \/ ~Truthy(end_time) THEN None
        ELSE LET duration == calculate_duration(start_time, add_wrap(start_time, end_time))
             IN  IF Truthy(duration) THEN duration ELSE None

edit_one(start_input, end_input) ==
    LET start_time == parse_time_input(start_input)
        end_time == parse_time_input(end_input)
    IN  IF Truthy(start_time) /\ Truthy(end_time)
        THEN LET new_session ==
                     calculate_duration(start_time, edit_wrap(start_time, end_time))
             IN  IF Truthy(new_session) THEN new_session ELSE None
        ELSE None

(***************************************************************************)
(* Helpers of manage_sessions.                                             *)
(***************************************************************************)
\* str.lower() on the letters the inputs use
lower(s) ==
    [i \in 1..Len(s) |->
        CASE s[i] = "Q" -> "q"
          [] s[i] = "U" -> "u"
          [] s[i] = "I" -> "i"
          [] s[i] = "T" -> "t"
          [] OTHER -> s[i]]

\* start_input.lower() in ['q', 'quit']
is_quit(start_input) ==
    lower(start_input) \in {<<"q">>, <<"q", "u", "i", "t">>}

\* indices.split(',')
RECURSIVE split_comma(_)
split_comma(s) ==
    IF \A i \in 1..Len(s) : s[i] # ","
    THEN <<s>>
    ELSE LET i == CHOOSE k \in 1..Len(s) :
                      s[k] = "," /\ \A j \in 1..(k - 1) : s[j] # ","
         IN  <<SubSeq(s, 1, i - 1)>> \o split_comma(SubSeq(s, i + 1, Len(s)))

ValueError == [ok |-> FALSE, value |-> 0]

\* int(s): surrounding whitespace dropped, an optional sign, then digits only
py_int(s) ==
    LET t == strip(s)
        signed == t # <<>> /\ t[1] \in {"+", "-"}
        digits == IF signed THEN Tail(t) ELSE t
    IN  IF ~isdigit(digits) THEN ValueError
        ELSE [ok |-> TRUE,
              value |-> IF signed /\ t[1] = "-" THEN 0 - DigitsVal(digits)
                        ELSE DigitsVal(digits)]

\* [int(x.strip()) - 1 for x in tokens]: ValueError if any token is not a number
to_remove_of(tokens) ==
    IF \E i \in 1..Len(tokens) : ~py_int(strip(tokens[i])).ok THEN ValueError
    ELSE [ok |-> TRUE,
          value |-> [i \in 1..Len(tokens) |-> py_int(strip(tokens[i])).value - 1]]

\* sorted(xs, reverse=True)
RECURSIVE sorted_reverse(_)
sorted_reverse(xs) ==
    IF xs = <<>> THEN <<>>
    ELSE LET i == CHOOSE k \in 1..Len(xs) : \A j \in 1..Len(xs) : xs[j] <= xs[k]
         IN  <<xs[i]>> \o sorted_reverse(SubSeq(xs, 1, i - 1) \o SubSeq(xs, i + 1, Len(xs)))

\* del xs[index], index counted from 0
del_at(xs, index) == SubSeq(xs, 1, index) \o SubSeq(xs, index + 2, Len(xs))

\* the loop of lines 175-177
RECURSIVE remove_each(_, _)
remove_each(xs, order) ==
    IF order = <<>> THEN xs
    ELSE LET index == Head(order)
         IN  remove_each(IF 0 <= index /\ index < Len(xs) THEN del_at(xs, index) ELSE xs,
                         Tail(order))

(***************************************************************************)
(* The shell: manage_sessions and the add loop it runs.                    *)
(***************************************************************************)
\* an input the command did not ask for
NotAsked == <<"<not asked>">>

Command(op, index_input, start_input, end_input) ==
    [op |-> op, index_input |-> index_input, start_input |-> start_input,
     end_input |-> end_input, before |-> sessions, new_before |-> new_sessions]

\* the inputs typed in shell runs
StartInputs == {<<"2", "3", "0", "0">>, <<"0", "0", ":", "5", "0">>, <<"9", "3", "0">>}

EndInputs == {<<"0", "0", ":", "5", "0">>, <<"1", ".", "2", "0">>,
              <<"2", "4", ":", "0", "0">>}

QuitInputs == {<<"q">>, <<"Q", "u", "i", "t">>}

\* an index past the end of any collection of the run
PastEnd == DecStr(MaxSessions + 1)

EditIndexInputs == {<<"1">>, <<"3">>, PastEnd, <<"0">>, <<"x">>}

RemoveInputs == {<<"1">>, <<"2">>, <<"3", ",", "1">>, <<"1", ",", "3">>,
                 <<"1", ",", "1">>, <<"1", ",", " ", "2">>, <<"x">>, <<"1", ",", "x">>,
                 PastEnd, <<"2", ",">> \o PastEnd, <<"0">>, <<>>}

\* the parts of the state a run does not use
ShellIdle ==
    /\ sessions = <<>>
    /\ new_sessions = <<>>
    /\ pc = "menu"
    /\ last = [op |-> "none"]

ParseIdle ==
    /\ time_input = <<>>
    /\ in_hour = 0
    /\ in_minute = 0
    /\ in_form = "empty"
    /\ parse_result = Pending

CalcIdle ==
    /\ calc_a = Pending
    /\ calc_b = Pending

FlowIdle ==
    /\ flow_s = 0
    /\ flow_e = 0
    /\ flow_add = Pending
    /\ flow_edit = Pending

\* main() with no file to load: an empty collection, then manage_sessions
Init ==
    /\ ShellIdle
    /\ ParseIdle /\ CalcIdle /\ FlowIdle

\* the collection and the add loop hold at most MaxSessions records between them
Room == Len(sessions) + Len(new_sessions) < MaxSessions

\* choice '1': get_multiple_session_details starts with an empty list
ChooseAdd ==
    /\ pc = "menu"
    /\ pc' = "adding"
    /\ new_sessions' = <<>>
    /\ last' = Command("choose_add", NotAsked, NotAsked, NotAsked)
    /\ UNCHANGED sessions
    /\ UNCHANGED <<parseVars, calcVars, flowVars>>

\* the slip of leaving the loop on a rejected input
AddEntry_break(start_input, end_input) ==
    /\ pc = "adding"
    /\ ~is_quit(start_input)
    /\ Truthy(add_one(start_input, end_input)) => Room
    /\ LET duration == add_one(start_input, end_input)
       IN  IF Truthy(duration)
           THEN /\ new_sessions' = Append(new_sessions, duration)
                /\ UNCHANGED <<sessions, pc>>
           ELSE /\ sessions' = sessions \o new_sessions
                /\ new_sessions' = <<>>
                /\ pc' = "menu"
    /\ last' = Command("add", NotAsked, start_input, end_input)
    /\ UNCHANGED <<parseVars, calcVars, flowVars>>

\* one pass of the loop of lines 91-111 on a start input that is not the sentinel
AddEntry(start_input, end_input) ==
    /\ pc = "adding"
    /\ ~is_quit(start_input)
    /\ Truthy(add_one(start_input, end_input)) => Room
    /\ LET duration == add_one(start_input, end_input)
       IN  new_sessions' = IF Truthy(duration) THEN Append(new_sessions, duration)
                           ELSE new_sessions
    /\ last' = Command("add", NotAsked, start_input, end_input)
    /\ UNCHANGED <<sessions, pc>>
    /\ UNCHANGED <<parseVars, calcVars, flowVars>>

\* the sentinel ends the loop; lines 130-131 extend the collection
AddQuit(start_input) ==
    /\ pc = "adding"
    /\ is_quit(start_input)
    /\ sessions' = IF new_sessions # <<>> THEN sessions \o new_sessions ELSE sessions
    /\ new_sessions' = <<>>
    /\ pc' = "menu"
    /\ last' = Command("add_quit", NotAsked, start_input, NotAsked)
    /\ UNCHANGED <<parseVars, calcVars, flowVars>>

\* choice '2', lines 134-162
EditSession(index_input, start_input, end_input) ==
    /\ pc = "menu"
    /\ IF sessions = <<>>
       THEN /\ last' = Command("edit", NotAsked, NotAsked, NotAsked)
            /\ UNCHANGED sessions
       ELSE LET n == py_int(index_input)
                index == n.value - 1
            IN  IF n.ok /\ 0 <= index /\ index < Len(sessions)
                THEN LET new_session == edit_one(start_input, end_input)
                     IN  /\ sessions' = IF Truthy(new_session)
                                        THEN [sessions EXCEPT ![index + 1] = new_session]
                                        ELSE sessions
                         /\ last' = Command("edit", index_input, start_input, end_input)
                ELSE /\ last' = Command("edit", index_input, NotAsked, NotAsked)
                     /\ UNCHANGED sessions
    /\ UNCHANGED <<new_sessions, pc>>
    /\ UNCHANGED <<parseVars, calcVars, flowVars>>

\* the slip of converting each index only when its turn comes, in the order typed
RemoveSessions_lazy(indices) ==
    /\ pc = "menu"
    /\ IF sessions = <<>>
       THEN /\ last' = Command("remove", NotAsked, NotAsked, NotAsked)
            /\ UNCHANGED sessions
       ELSE LET tokens == split_comma(indices)
                bad == {i \in 1..Len(tokens) : ~py_int(strip(tokens[i])).ok}
                good == IF bad = {} THEN tokens
                        ELSE SubSeq(tokens, 1, (CHOOSE i \in bad : \A j \in bad : i <= j) - 1)
            IN  /\ sessions' = remove_each(sessions, to_remove_of(good).value)
                /\ last' = Command("remove", indices, NotAsked, NotAsked)
    /\ UNCHANGED <<new_sessions, pc>>
    /\ UNCHANGED <<parseVars, calcVars, flowVars>>

\* choice '3', lines 164-180
RemoveSessions(indices) ==
    /\ pc = "menu"
    /\ IF sessions = <<>>
       THEN /\ last' = Command("remove", NotAsked, NotAsked, NotAsked)
            /\ UNCHANGED sessions
       ELSE LET to_remove == to_remove_of(split_comma(indices))
            IN  /\ sessions' = IF to_remove.ok
                               THEN remove_each(sessions, sorted_reverse(to_remove.value))
                               ELSE sessions
                /\ last' = Command("remove", indices, NotAsked, NotAsked)
    /\ UNCHANGED <<new_sessions, pc>>
    /\ UNCHANGED <<parseVars, calcVars, flowVars>>

\* choice '4'
Finish ==
    /\ pc = "menu"
    /\ pc' = "done"
    /\ last' = Command("finish", NotAsked, NotAsked, NotAsked)
    /\ UNCHANGED <<sessions, new_sessions>>
    /\ UNCHANGED <<parseVars, calcVars, flowVars>>

Next ==
    \/ ChooseAdd
    \/ \E s \in StartInputs, e \in EndInputs : AddEntry(s, e)
    \/ \E s \in QuitInputs : AddQuit(s)
    \/ \E i \in EditIndexInputs, s \in StartInputs, e \in EndInputs : EditSession(i, s, e)
    \/ \E i \in RemoveInputs : RemoveSessions(i)
    \/ Finish

Spec == Init /\ [][Next]_vars

(***************************************************************************)
(* Runs of the parser alone: a string written from an hour and a minute    *)
(* in one of the forms below, then parsed.                                 *)
(***************************************************************************)
Forms == {"HH:MM", "HH.MM", "HH;MM", "HHMM", "H:MM", "H.MM", "H;MM", "H:M",
          "HH,MM", "HMM", " HH:MM ", "empty"}

WriteTime(h, m, form) ==
    CASE form = "HH:MM" -> Pad2(h) \o <<":">> \o Pad2(m)
      [] form = "HH.MM" -> Pad2(h) \o <<".">> \o Pad2(m)
      [] form = "HH;MM" -> Pad2(h) \o <<";">> \o Pad2(m)
      [] form = "HHMM" -> Pad2(h) \o Pad2(m)
      [] form = "H:MM" -> DecStr(h) \o <<":">> \o Pad2(m)
      [] form = "H.MM" -> DecStr(h) \o <<".">> \o Pad2(m)
      [] form = "H;MM" -> DecStr(h) \o <<";">> \o Pad2(m)
      [] form = "H:M" -> DecStr(h) \o <<":">> \o DecStr(m)
      [] form = "HH,MM" -> Pad2(h) \o <<",">> \o Pad2(m)
      [] form = "HMM" -> DecStr(h) \o Pad2(m)
      [] form = " HH:MM " -> <<" ">> \o Pad2(h) \o <<":">> \o Pad2(m) \o <<" ">>
      [] form = "empty" -> <<>>

InitParse ==
    /\ \E h \in 0..MaxHourIn, m \in 0..MaxMinuteIn, f \in Forms :
          /\ in_hour = h
          /\ in_minute = m
          /\ in_form = f
          /\ time_input = WriteTime(h, m, f)
    /\ parse_result = Pending
    /\ ShellIdle /\ CalcIdle /\ FlowIdle

Parse ==
    /\ parse_result = Pending
    /\ parse_result' = parse_time_input(time_input)
    /\ UNCHANGED <<time_input, in_hour, in_minute, in_form>>
    /\ UNCHANGED <<shellVars, calcVars, flowVars>>

NextParse == Parse

SpecParse == InitParse /\ [][NextParse]_vars

(***************************************************************************)
(* Runs of the calculator alone: two calls, one after the other.           *)
(***************************************************************************)
FromMinutes(t) == datetime(t \div 1440, (t % 1440) \div 60, t % 60)

CalcStarts == {datetime(0, 10, 0), datetime(0, 23, 0)}

CalcCalls ==
    {[start_time |-> s, end_time |-> FromMinutes(ToMinutes(s) + d), result |-> Pending] :
        s \in CalcStarts, d \in (0 - MaxNegative)..MaxDuration}

InitCalc ==
    /\ calc_a \in CalcCalls
    /\ calc_b \in CalcCalls
    /\ ShellIdle /\ ParseIdle /\ FlowIdle

CalcA ==
    /\ calc_a.result = Pending
    /\ calc_a' = [calc_a EXCEPT !.result = calculate_duration(calc_a.start_time,
                                                               calc_a.end_time)]
    /\ UNCHANGED calc_b
    /\ UNCHANGED <<shellVars, parseVars, flowVars>>

CalcB ==
    /\ calc_a.result # Pending
    /\ calc_b.result = Pending
    /\ calc_b' = [calc_b EXCEPT !.result = calculate_duration(calc_b.start_time,
                                                               calc_b.end_time)]
    /\ UNCHANGED calc_a
    /\ UNCHANGED <<shellVars, parseVars, flowVars>>

NextCalc == CalcA \/ CalcB

SpecCalc == InitCalc /\ [][NextCalc]_vars

(***************************************************************************)
(* Runs of the add and edit pipelines alone, on a pair of valid times.     *)
(***************************************************************************)
FlowMinutes == {0, 1, 19, 20, 30, 49, 50, 59}

FlowTimes == {h * 60 + m : h \in 0..23, m \in FlowMinutes}

TimeStr(t) == Pad2(t \div 60) \o <<":">> \o Pad2(t % 60)

InitFlow ==
    /\ flow_s \in FlowTimes
    /\ flow_e \in FlowTimes
    /\ flow_add = Pending
    /\ flow_edit = Pending
    /\ ShellIdle /\ ParseIdle /\ CalcIdle

FlowAdd ==
    /\ flow_add = Pending
    /\ flow_add' = add_one(TimeStr(flow_s), TimeStr(flow_e))
    /\ UNCHANGED <<flow_s, flow_e, flow_edit>>
    /\ UNCHANGED <<shellVars, parseVars, calcVars>>

FlowEdit ==
    /\ flow_edit = Pending
    /\ flow_edit' = edit_one(TimeStr(flow_s), TimeStr(flow_e))
    /\ UNCHANGED <<flow_s, flow_e, flow_add>>
    /\ UNCHANGED <<shellVars, parseVars, calcVars>>

NextFlow == FlowAdd \/ FlowEdit

SpecFlow == InitFlow /\ [][NextFlow]_vars

(***************************************************************************)
(* Claims about the parser.                                                *)
(***************************************************************************)
SeparatorForms == {"HH:MM", "HH.MM", "HH;MM", "HHMM", "H:MM", "H.MM", "H;MM"}

\* C4: every time of day with hour 0..23 and minute 0..59, written as HH:MM, HH.MM,
\* HH;MM, HHMM, or with an unpadded hour and ':', '.' or ';', parses to the one
\* datetime with that hour and minute.
C4_FormsParseToSameTime ==
    (/\ parse_result # Pending
     /\ in_form \in SeparatorForms
     /\ in_hour <= 23
     /\ in_minute <= 59)
    => parse_result = datetime(0, in_hour, in_minute)

C4_Witness ==
    /\ time_input = <<"2", "0", "0", "0">>
    /\ in_form = "HHMM"
    /\ parse_result = datetime(0, 20, 0)

\* C5: a string written with an hour of 24 or more or a minute of 60 or more, in any
\* of the accepted forms, and the empty string, parse to None.
C5_OutOfRangeRejected ==
    (/\ parse_result # Pending
     /\ \/ in_form = "empty"
        \/ (in_form \in SeparatorForms /\ (in_hour >= 24 \/ in_minute >= 60)))
    => parse_result = None

C5_Witness ==
    /\ time_input = <<"1", "2", "6", "0">>
    /\ parse_result = None

(***************************************************************************)
(* Claims about the calculator.                                            *)
(***************************************************************************)
CallMinutes(c) == ToMinutes(c.end_time) - ToMinutes(c.start_time)

IsRecord(r) == r # Pending /\ r # None

C1_Rounded(c) ==
    (c.result # Pending /\ CallMinutes(c) >= 0)
    => LET hours == CallMinutes(c) \div 60
           minutes == CallMinutes(c) % 60
           r == c.result
       IN  /\ r # None
           /\ r.original_hours = hours
           /\ r.original_minutes = minutes
           /\ minutes \in 0..19 => (r.rounded_hours = hours /\ r.rounded_minutes = 0)
           /\ minutes \in 20..49 => (r.rounded_hours = hours /\ r.rounded_minutes = 30)
           /\ minutes \in 50..59 => (r.rounded_hours = hours + 1 /\ r.rounded_minutes = 0)

\* C1: for a non-negative duration, original hours and minutes are duration div 60
\* and mod 60; minutes 0..19 round down to the hour, 20..49 to the half hour, 50..59
\* up to the next hour.
C1_RoundingPolicy == C1_Rounded(calc_a) /\ C1_Rounded(calc_b)

C1_Witness ==
    /\ CallMinutes(calc_a) = 79
    /\ IsRecord(calc_a.result)
    /\ calc_a.result.rounded_hours = 1 /\ calc_a.result.rounded_minutes = 0
    /\ CallMinutes(calc_b) = 110
    /\ IsRecord(calc_b.result)
    /\ calc_b.result.rounded_hours = 2 /\ calc_b.result.rounded_minutes = 0

C6_Guard(c) == c.result # Pending => ((c.result = None) <=> (CallMinutes(c) < 0))

\* C6: a call whose end is earlier than its start yields None; every call whose end
\* is equal to or later than its start yields a record.
C6_NegativeDurationRejected == C6_Guard(calc_a) /\ C6_Guard(calc_b)

C6_Witness ==
    /\ calc_a.start_time = datetime(0, 10, 0)
    /\ calc_a.end_time = datetime(0, 9, 0)
    /\ calc_a.result = None
    /\ CallMinutes(calc_b) = 0
    /\ IsRecord(calc_b.result)

RoundedMinutes(r) == r.rounded_hours * 60 + r.rounded_minutes

\* C10: of two calls that both yield a record, the one with the shorter duration has
\* a rounded duration and a cost no greater than the other's.
C10_BillingMonotone ==
    (/\ IsRecord(calc_a.result)
     /\ IsRecord(calc_b.result)
     /\ CallMinutes(calc_a) <= CallMinutes(calc_b))
    => /\ RoundedMinutes(calc_a.result) <= RoundedMinutes(calc_b.result)
       /\ calc_a.result.cost <= calc_b.result.cost

C10_Witness ==
    /\ CallMinutes(calc_a) = 109
    /\ CallMinutes(calc_b) = 110
    /\ IsRecord(calc_a.result)
    /\ IsRecord(calc_b.result)
    /\ calc_a.result.cost = 330
    /\ calc_b.result.cost = 440

(***************************************************************************)
(* Claims about the day-wrap of the add and edit pipelines.                *)
(***************************************************************************)
C3_Outcome(r) ==
    r # Pending
    => /\ r # None
       /\ r.original_hours * 60 + r.original_minutes = (flow_e - flow_s) % 1440
       /\ r.start_time = TimeStr(flow_s)
       /\ r.end_time = TimeStr(flow_e)

C3_Wrapped(dt) == dt.days = 1 <=> flow_e < flow_s

\* C3: for every pair of valid times the add loop and the edit both add a day to
\* the end exactly when it is earlier than the start, and both get a record whose
\* original duration is (end - start) mod 1440 minutes.
C3_DayWrap ==
    /\ C3_Outcome(flow_add)
    /\ C3_Outcome(flow_edit)
    /\ C3_Wrapped(add_wrap(parse_time_input(TimeStr(flow_s)),
                            parse_time_input(TimeStr(flow_e))))
    /\ C3_Wrapped(edit_wrap(parse_time_input(TimeStr(flow_s)),
                             parse_time_input(TimeStr(flow_e))))

C3_Witness ==
    /\ flow_s = 23 * 60
    /\ flow_e = 60
    /\ IsRecord(flow_add)
    /\ flow_add.original_hours = 2 /\ flow_add.original_minutes = 0
    /\ flow_add.rounded_hours = 2 /\ flow_add.rounded_minutes = 0
    /\ flow_add.cost = 440
    /\ flow_add.formatted_cost = <<"$", "4", "4", "0", ".", "0", "0">>
    /\ flow_edit = flow_add

(***************************************************************************)
(* Claims about the shell.                                                 *)
(***************************************************************************)
Asked(input) == input # NotAsked

\* C2: every record of the collection has a rounded duration that is a non-negative
\* number of half hours, the cost 220 per rounded hour plus 110 for a half hour, and
\* decimal hours (in tenths) of ten per rounded hour plus five for a half hour.
C2_RecordInvariant ==
    \A i \in 1..Len(sessions) :
        LET r == sessions[i]
            half == IF r.rounded_minutes = 30 THEN 1 ELSE 0
        IN  /\ r.rounded_hours >= 0
            /\ r.rounded_minutes \in {0, 30}
            /\ r.cost = r.rounded_hours * 220 + half * 110
            /\ r.decimal_hours = r.rounded_hours * 10 + half * 5
            /\ r.cost * 5 = 110 * r.decimal_hours

C2_Witness ==
    /\ last.op = "edit"
    /\ sessions # last.before
    /\ \E i \in 1..Len(sessions) : sessions[i].rounded_minutes = 30
    /\ \E i \in 1..Len(sessions) :
           sessions[i].rounded_hours = sessions[i].original_hours + 1

\* the items of the last remove input, and the 1-based position each one names
RemoveTokens == split_comma(last.index_input)

Numeric(token) == py_int(strip(token)).ok

InRange(token) ==
    /\ Numeric(token)
    /\ py_int(strip(token)).value \in 1..Len(last.before)

RemoveAsked == last.op = "remove" /\ Asked(last.index_input)

ListedPositions ==
    {py_int(strip(RemoveTokens[i])).value : i \in 1..Len(RemoveTokens)}

\* the records of xs at the positions outside P, in their order
RECURSIVE KeepOutside(_, _, _)
KeepOutside(xs, P, i) ==
    IF i > Len(xs) THEN <<>>
    ELSE (IF i \in P THEN <<>> ELSE <<xs[i]>>) \o KeepOutside(xs, P, i + 1)

\* C7: a remove of in-range indices, in any order and with repeats, leaves exactly
\* the records at the positions not listed, in their order.
C7_RemoveExactlyListed ==
    (/\ RemoveAsked
     /\ \A i \in 1..Len(RemoveTokens) : InRange(RemoveTokens[i]))
    => sessions = KeepOutside(last.before, ListedPositions, 1)

\* C8 as stated: an edit or remove whose index input holds any item that is not a
\* number or is out of range leaves the collection as it was.
C8_AnyInvalidIndexNoOp ==
    /\ (/\ last.op = "edit"
        /\ Asked(last.index_input)
        /\ ~InRange(last.index_input))
       => (sessions = last.before /\ pc = "menu")
    /\ (/\ RemoveAsked
        /\ \E i \in 1..Len(RemoveTokens) : ~InRange(RemoveTokens[i]))
       => (sessions = last.before /\ pc = "menu")

\* C8 amended: an edit whose index is not a number or is out of range, and a remove
\* whose input holds an item that is not a number or holds no in-range index, leave
\* the collection as it was and the shell at its menu; a remove of numbers of which
\* some are in range removes records.
C8_InvalidIndexNoOp ==
    /\ (/\ last.op = "edit"
        /\ Asked(last.index_input)
        /\ ~InRange(last.index_input))
       => (sessions = last.before /\ pc = "menu")
    /\ (/\ RemoveAsked
        /\ \/ \E i \in 1..Len(RemoveTokens) : ~Numeric(RemoveTokens[i])
           \/ \A i \in 1..Len(RemoveTokens) : ~InRange(RemoveTokens[i]))
       => (sessions = last.before /\ pc = "menu")
    /\ (/\ RemoveAsked
        /\ \A i \in 1..Len(RemoveTokens) : Numeric(RemoveTokens[i])
        /\ \E i \in 1..Len(RemoveTokens) : InRange(RemoveTokens[i]))
       => (Len(sessions) < Len(last.before) /\ pc = "menu")

C8_Witness ==
    /\ RemoveAsked
    /\ last.index_input = <<"1", ",", "x">>
    /\ Len(last.before) = 2
    /\ sessions = last.before
    /\ pc = "menu"

Rejected(input) == parse_time_input(input) = None

\* C9: an add or an edit whose start or end string the parser rejects appends and
\* replaces nothing: the collection and the records the add loop has accepted are
\* as before, and the shell stays in the loop it was in.
C9_RejectedInputAbandoned ==
    /\ (/\ last.op = "add"
        /\ (Rejected(last.start_input) \/ Rejected(last.end_input)))
       => /\ sessions = last.before
          /\ new_sessions = last.new_before
          /\ pc = "adding"
    /\ (/\ last.op = "edit"
        /\ Asked(last.start_input)
        /\ (Rejected(last.start_input) \/ Rejected(last.end_input)))
       => /\ sessions = last.before
          /\ pc = "menu"

C9_Witness ==
    /\ last.op = "add"
    /\ Rejected(last.start_input)
    /\ ~Rejected(last.end_input)
    /\ sessions # <<>>
    /\ new_sessions # <<>>
    /\ new_sessions = last.new_before
    /\ pc = "adding"

====
